---- MODULE Spec2Model ----
(***************************************************************************)
(* The dfdaemon gRPC service of src/src/grpc/dfdaemon.rs as a state        *)
(* machine: DfdaemonServer::run with its two listeners and the shutdown    *)
(* signal, the handlers of DfdaemonServerHandler, the detached producers   *)
(* of the two streaming calls, and the transport draining the outbound     *)
(* stream of a call, and the methods of DfdaemonClient.  One call is        *)
(* followed per behaviour: a call arriving at the server (with, for         *)
(* GetPieceNumbers, the same call over the other transport), or a method    *)
(* of the client, up to the RPC it puts on the wire.                        *)
(***************************************************************************)
EXTENDS Integers, Sequences, FiniteSets, TLC

VARIABLES
    runPc,              \* position of DfdaemonServer::run
    listener,           \* state of each transport's listener
    triggers,           \* the shutdown signal was triggered "never", "once" or "again"
    shutdownRx,         \* state of each listener's receiver of the signal
    call,               \* the call being handled (NoCall before it arrives)
    result,             \* what the handler returned for the call
    storeAccessed,      \* the piece store has been accessed for the call
    out_stream,         \* items queued in the call's outbound channel
    out_stream_tx,      \* the sender half, moved into the spawned producer
    out_stream_rx,      \* the receiver half, handed to the transport
    delivered,          \* what the transport has taken off the outbound stream
    syncPc,             \* position of the SyncPieces producer
    syncIdx,            \* index of the interested piece number being processed
    piece,              \* metadata of the piece being processed
    content,            \* content read for the piece being processed
    attempts,           \* what the store and the reader did for each number so far
    dlPc,               \* position of the DownloadTask producer
    engine,             \* state of the download engine for the call
    download_progress,  \* events queued in the engine's progress channel
    finished_piece,     \* the progress event being relayed
    emitted,            \* every progress event the engine has emitted
    resultOther,        \* the answer to the same call over the other transport
    clientCall,         \* the DfdaemonClient method invoked (NoCall before)
    rpcs,               \* the RPCs the DfdaemonClient has put on the wire
    clientResult        \* the error the DfdaemonClient method returned by itself

lifecycleVars == <<runPc, listener, triggers, shutdownRx>>
callVars == <<call, result, storeAccessed>>
streamVars == <<out_stream, out_stream_tx, out_stream_rx, delivered>>
syncVars == <<syncPc, syncIdx, piece, content, attempts>>
dlVars == <<dlPc, engine, download_progress, finished_piece, emitted>>
clientVars == <<clientCall, rpcs, clientResult>>
\* What the peers of the server hold: the caller of a pair of calls, the client.
peerVars == <<resultOther, clientVars>>
serviceVars == <<callVars, streamVars, syncVars, dlVars, peerVars>>
vars == <<lifecycleVars, serviceVars>>

----------------------------------------------------------------------------
(* Bounds of the model. *)

\* Longest piece-number list of a request or of a store enumeration.
MaxLen == 2
\* How many progress events the download engine emits at most.
MaxEvents == 2

\* The piece numbers requests, enumerations and progress events draw on: two
\* are enough for items to carry the same number or different ones.
PieceNumbers == {0, 1}
Transports == {"tcp", "uds"}

SeqsUpTo(S, n) == UNION {[1..k -> S] : k \in 0..n}

----------------------------------------------------------------------------
(* Values. *)

None == [some |-> FALSE]
Some(x) == [some |-> TRUE, value |-> x]

NoCall == [kind |-> "none"]
NoResult == [status |-> "PENDING"]
NoPiece == [number |-> -1]
TaskIds == {"task-1"}

\* mpsc::channel(128)
OutStreamCapacity == 128

\* The piece store's metadata of piece `number`: a piece covers a fixed range.
PieceLength == 4
StoreMetadata(number) ==
    [number |-> number, offset |-> number * PieceLength,
     length |-> PieceLength, digest |-> <<"digest", number>>]
\* The bytes the local storage holds for piece `number`.
StoreContent(number) == <<"content", number>>

----------------------------------------------------------------------------
(* The shutdown signal (crate::shutdown): a broadcast notification with one *)
(* independent receiver per listener.  A receiver is subscribed when the    *)
(* signal is cloned and sees only a firing that happens while it exists.    *)

\* shutdown.clone(): a fresh receiver, subscribed from now on.
ShutdownClone(rx, t) == [rx EXCEPT ![t] = "subscribed"]

\* Firing the signal notifies every receiver subscribed at that moment.
ShutdownNotify(rx) ==
    [t \in Transports |-> IF rx[t] = "subscribed" THEN "signalled" ELSE rx[t]]

\* shutdown.recv().await completes once the receiver has been notified.
ShutdownRecvReady(rx, t) == rx[t] = "signalled"
ShutdownRecv(rx, t) == [rx EXCEPT ![t] = "received"]

ShutdownFired == triggers # "never"

\* Shutdown::trigger(): the process-wide signal is fired, at any point after
\* run starts.  Nothing stops a process from triggering it again, any number
\* of times.
TriggerShutdown ==
    /\ runPc # "init"
    /\ triggers' = IF triggers = "never" THEN "once" ELSE "again"
    /\ shutdownRx' = ShutdownNotify(shutdownRx)
    /\ UNCHANGED <<runPc, listener, serviceVars>>

----------------------------------------------------------------------------
(* DfdaemonServer::run *)

\* A call is in flight on transport t while its response stream is open.
InFlight(t) ==
    /\ call.kind # "none"
    /\ call.transport = t
    /\ out_stream_rx = "open"

\* run is entered: the reflection service and the grpc service are built.
RunStart ==
    /\ runPc = "init"
    /\ runPc' = "clone_tcp"
    /\ UNCHANGED <<listener, triggers, shutdownRx, serviceVars>>

\* let mut shutdown = self.shutdown.clone();
RunCloneShutdownTcp ==
    /\ runPc = "clone_tcp"
    /\ shutdownRx' = ShutdownClone(shutdownRx, "tcp")
    /\ runPc' = "bind_tcp"
    /\ UNCHANGED <<listener, triggers, serviceVars>>

\* serve_with_shutdown(self.addr, ..) binds the address and starts serving.
RunServeTcp ==
    /\ runPc = "bind_tcp"
    /\ listener' = [listener EXCEPT !["tcp"] = "serving"]
    /\ runPc' = "serve_tcp"
    /\ UNCHANGED <<triggers, shutdownRx, serviceVars>>

\* The bind fails: .await.unwrap() panics and run never returns.
RunServeTcpFail ==
    /\ runPc = "bind_tcp"
    /\ runPc' = "panicked"
    /\ UNCHANGED <<listener, triggers, shutdownRx, serviceVars>>

\* The upload server's shutdown future completes: the listener drains.
TcpRecvShutdown ==
    /\ runPc = "serve_tcp"
    /\ listener["tcp"] = "serving"
    /\ ShutdownRecvReady(shutdownRx, "tcp")
    /\ shutdownRx' = ShutdownRecv(shutdownRx, "tcp")
    /\ listener' = [listener EXCEPT !["tcp"] = "draining"]
    /\ UNCHANGED <<runPc, triggers, serviceVars>>

\* The drain ends once no call is in flight: serve_with_shutdown returns and
\* run goes on to the unix domain socket.
TcpStop ==
    /\ runPc = "serve_tcp"
    /\ listener["tcp"] = "draining"
    /\ ~InFlight("tcp")
    /\ listener' = [listener EXCEPT !["tcp"] = "stopped"]
    /\ runPc' = "clone_uds"
    /\ UNCHANGED <<triggers, shutdownRx, serviceVars>>

\* let mut shutdown_unix = self.shutdown.clone();
RunCloneShutdownUds ==
    /\ runPc = "clone_uds"
    /\ shutdownRx' = ShutdownClone(shutdownRx, "uds")
    /\ runPc' = "bind_uds"
    /\ UNCHANGED <<listener, triggers, serviceVars>>

\* UnixListener::bind succeeds and serve_with_incoming_shutdown starts serving.
RunServeUds ==
    /\ runPc = "bind_uds"
    /\ listener' = [listener EXCEPT !["uds"] = "serving"]
    /\ runPc' = "serve_uds"
    /\ UNCHANGED <<triggers, shutdownRx, serviceVars>>

\* UnixListener::bind(..).unwrap() panics.
RunServeUdsFail ==
    /\ runPc = "bind_uds"
    /\ runPc' = "panicked"
    /\ UNCHANGED <<listener, triggers, shutdownRx, serviceVars>>

\* The download server's shutdown future completes: the listener drains.
UdsRecvShutdown ==
    /\ runPc = "serve_uds"
    /\ listener["uds"] = "serving"
    /\ ShutdownRecvReady(shutdownRx, "uds")
    /\ shutdownRx' = ShutdownRecv(shutdownRx, "uds")
    /\ listener' = [listener EXCEPT !["uds"] = "draining"]
    /\ UNCHANGED <<runPc, triggers, serviceVars>>

\* The drain ends, serve_with_incoming_shutdown returns, and so does run.
UdsStop ==
    /\ runPc = "serve_uds"
    /\ listener["uds"] = "draining"
    /\ ~InFlight("uds")
    /\ listener' = [listener EXCEPT !["uds"] = "stopped"]
    /\ runPc' = "returned"
    /\ UNCHANGED <<triggers, shutdownRx, serviceVars>>

\* A listener accepts a new call only while it serves (a draining one refuses).
Accepts(t) == listener[t] = "serving" /\ call = NoCall /\ clientCall = NoCall

----------------------------------------------------------------------------
(* The outbound channel of a streaming call: mpsc::channel(128), its        *)
(* receiver wrapped in a ReceiverStream that the transport drains.          *)

\* Faulty variants of Enqueue: the item jumps the queue; the item is queued twice.
EnqueueFront(q, item) == <<item>> \o q
EnqueueTwice(q, item) == q \o <<item, item>>
\* mpsc::Sender::send on a channel with room: the item joins the queue's tail.
Enqueue(q, item) == Append(q, item)

\* Faulty variant of SendReady: the channel is unbounded.
SendReadyUnbounded == TRUE

\* send(..).await can complete: the receiver is gone (the send fails at once)
\* or the queue has room; otherwise the producer stays suspended.
SendReady == out_stream_rx # "open" \/ Len(out_stream) < OutStreamCapacity

\* Faulty variant of Send: a send to a channel whose receiver is gone never
\* completes.
SendWhileOpen(item) ==
    /\ out_stream_rx = "open"
    /\ Len(out_stream) < OutStreamCapacity
    /\ out_stream' = Enqueue(out_stream, item)
    /\ UNCHANGED <<out_stream_rx, delivered>>

\* send(item).await.unwrap_or_else(log): a failed send is logged and dropped.
Send(item) ==
    /\ SendReady
    /\ out_stream' = IF out_stream_rx = "open" THEN Enqueue(out_stream, item)
                     ELSE out_stream
    /\ UNCHANGED <<out_stream_rx, delivered>>

\* Everything the call's outbound stream carries: taken already, or queued.
StreamItems == delivered \o out_stream

\* The transport takes the next item off the stream.  An error item ends the
\* response with that status, and the stream is dropped with it.
TransportRecv ==
    /\ out_stream_rx = "open"
    /\ out_stream # <<>>
    /\ delivered' = Append(delivered, Head(out_stream))
    /\ IF Head(out_stream).ok
       THEN out_stream' = Tail(out_stream) /\ UNCHANGED out_stream_rx
       ELSE out_stream' = <<>> /\ out_stream_rx' = "closed"
    /\ UNCHANGED <<lifecycleVars, peerVars, callVars, out_stream_tx, syncVars, dlVars>>

\* The queue is empty and the producer has dropped the sender: the stream ends.
TransportEnd ==
    /\ out_stream_rx = "open"
    /\ out_stream = <<>>
    /\ out_stream_tx = "dropped"
    /\ out_stream_rx' = "closed"
    /\ UNCHANGED <<lifecycleVars, peerVars, callVars, out_stream,
                   out_stream_tx, delivered, syncVars, dlVars>>

\* The client goes away: the stream is dropped with whatever is still queued.
ClientDisconnect ==
    /\ out_stream_rx = "open"
    /\ out_stream_rx' = "dropped"
    /\ out_stream' = <<>>
    /\ UNCHANGED <<lifecycleVars, peerVars, callVars, out_stream_tx, delivered,
                   syncVars, dlVars>>

----------------------------------------------------------------------------
(* DfdaemonServerHandler::get_piece_numbers *)

\* What task.piece.get_all may hand back: an error, or the task's pieces.
GetAllResults ==
    {[ok |-> FALSE]} \cup
    {[ok |-> TRUE, pieces |-> [i \in DOMAIN ns |-> StoreMetadata(ns[i])]] :
        ns \in SeqsUpTo(PieceNumbers, MaxLen)}

\* Faulty variant of GetPieceNumbersResponse: an empty enumeration is answered.
GetPieceNumbersAcceptEmpty(get_all) ==
    IF ~get_all.ok
    THEN [status |-> "INTERNAL"]
    ELSE [status |-> "OK",
          piece_numbers |-> [i \in DOMAIN get_all.pieces |-> get_all.pieces[i].number]]

\* The handler's result for what the store enumeration returned.
GetPieceNumbersResponse(get_all) ==
    IF ~get_all.ok
    THEN [status |-> "INTERNAL"]
    ELSE LET piece_numbers ==
                 [i \in DOMAIN get_all.pieces |-> get_all.pieces[i].number]
         IN  IF piece_numbers = <<>>
             THEN [status |-> "NOT_FOUND"]
             ELSE [status |-> "OK", piece_numbers |-> piece_numbers]

get_piece_numbers(t, task_id, get_all) ==
    /\ Accepts(t)
    /\ call' = [kind |-> "GetPieceNumbers", transport |-> t, task_id |-> task_id,
                get_all |-> get_all]
    /\ storeAccessed' = TRUE
    /\ result' = GetPieceNumbersResponse(get_all)
    /\ UNCHANGED <<lifecycleVars, peerVars, streamVars, syncVars, dlVars>>

\* The caller of a GetPieceNumbers call makes the same call, against the same
\* store, over the other transport: both listeners are given clones of one
\* service, so the same handler answers it.
get_piece_numbers_other(t) ==
    /\ call.kind = "GetPieceNumbers"
    /\ t # call.transport
    /\ listener[t] = "serving"
    /\ resultOther = NoResult
    /\ resultOther' = GetPieceNumbersResponse(call.get_all)
    /\ UNCHANGED <<lifecycleVars, callVars, streamVars, syncVars, dlVars, clientVars>>

----------------------------------------------------------------------------
(* DfdaemonServerHandler::sync_pieces *)

\* The request's payload: absent, the interested-pieces variant, or another.
SyncPiecesRequests ==
    {[task_id |-> id, request |-> r] :
        id \in TaskIds,
        r \in {None, Some([variant |-> "Other"])} \cup
              {Some([variant |-> "InterestedPiecesRequest", piece_numbers |-> ns]) :
                  ns \in SeqsUpTo(PieceNumbers, MaxLen)}}

\* Faulty variant of InterestedPieceNumbers: any other shape of request counts
\* as an empty list of interested pieces.
InterestedPieceNumbersOrDefault(request) ==
    IF request.some /\ request.value.variant = "InterestedPiecesRequest"
    THEN Some(request.value.piece_numbers)
    ELSE Some(<<>>)

\* match request.request: the piece numbers of the interested-pieces variant,
\* None for any other shape of request.
InterestedPieceNumbers(request) ==
    IF request.some /\ request.value.variant = "InterestedPiecesRequest"
    THEN Some(request.value.piece_numbers)
    ELSE None

sync_pieces(t, request) ==
    /\ Accepts(t)
    /\ call' = [kind |-> "SyncPieces", transport |-> t, request |-> request]
    /\ LET interested_piece_numbers == InterestedPieceNumbers(request.request)
       IN  IF ~interested_piece_numbers.some
           THEN /\ result' = [status |-> "INVALID_ARGUMENT"]
                /\ UNCHANGED <<streamVars, syncVars>>
           ELSE /\ out_stream' = <<>>
                /\ out_stream_tx' = "alive"
                /\ out_stream_rx' = "open"
                /\ syncPc' = "get"
                /\ syncIdx' = 1
                /\ result' = [status |-> "OK"]
                /\ UNCHANGED <<delivered, piece, content, attempts>>
    /\ UNCHANGED <<lifecycleVars, peerVars, storeAccessed, dlVars>>

\* The list the spawned producer iterates over.
interested_piece_numbers == InterestedPieceNumbers(call.request.request).value
interested_piece_number == interested_piece_numbers[syncIdx]

\* Faulty variant of SyncContinue: break, the failure ends the loop.
SyncBreak(outcome) ==
    /\ attempts' = Append(attempts, outcome)
    /\ syncPc' = "get"
    /\ syncIdx' = Len(interested_piece_numbers) + 1
    /\ piece' = NoPiece
    /\ content' = None

\* Faulty variant of SyncContinue: the failed number is tried again.
SyncRetry(outcome) ==
    /\ syncPc' = "get"
    /\ piece' = NoPiece
    /\ content' = None
    /\ UNCHANGED <<syncIdx, attempts>>

\* continue: the failure was logged; on to the next interested piece number.
SyncContinue(outcome) ==
    /\ attempts' = Append(attempts, outcome)
    /\ syncPc' = "get"
    /\ syncIdx' = syncIdx + 1
    /\ piece' = NoPiece
    /\ content' = None

\* A failed step of the current number: it is skipped.
SyncSkip(outcome) ==
    /\ SyncContinue(outcome)
    /\ UNCHANGED <<lifecycleVars, peerVars, call, result, streamVars, dlVars>>

SyncAtNumber(pc) ==
    /\ syncPc = pc
    /\ syncIdx <= Len(interested_piece_numbers)

\* task.piece.get(..) returns Err(e)
SyncGetErr ==
    /\ SyncAtNumber("get")
    /\ storeAccessed' = TRUE
    /\ SyncSkip("get_err")

\* task.piece.get(..) returns Ok(None)
SyncGetNone ==
    /\ SyncAtNumber("get")
    /\ storeAccessed' = TRUE
    /\ SyncSkip("not_found")

\* task.piece.get(..) returns Ok(Some(piece))
SyncGetSome ==
    /\ SyncAtNumber("get")
    /\ storeAccessed' = TRUE
    /\ piece' = StoreMetadata(interested_piece_number)
    /\ syncPc' = "open"
    /\ UNCHANGED <<lifecycleVars, peerVars, call, result, streamVars, syncIdx,
                   content, attempts, dlVars>>

\* download_from_local_peer(..).await returns Err(e)
SyncOpenErr ==
    /\ SyncAtNumber("open")
    /\ SyncSkip("open_err")
    /\ UNCHANGED storeAccessed

\* download_from_local_peer(..).await returns Ok(reader)
SyncOpenOk ==
    /\ SyncAtNumber("open")
    /\ syncPc' = "read"
    /\ UNCHANGED <<lifecycleVars, peerVars, callVars, streamVars, syncIdx,
                   piece, content, attempts, dlVars>>

\* reader.read_to_end(&mut content).await returns Err(e)
SyncReadErr ==
    /\ SyncAtNumber("read")
    /\ SyncSkip("read_err")
    /\ UNCHANGED storeAccessed

\* reader.read_to_end(&mut content).await returns Ok(_)
SyncReadOk ==
    /\ SyncAtNumber("read")
    /\ content' = Some(StoreContent(interested_piece_number))
    /\ attempts' = Append(attempts, "read_ok")
    /\ syncPc' = "send"
    /\ UNCHANGED <<lifecycleVars, peerVars, callVars, streamVars, syncIdx,
                   piece, dlVars>>

\* The item of a piece whose metadata and content were read.
SyncPiecesResponse(p, c) ==
    [ok |-> TRUE,
     piece |-> [number |-> p.number, parent_id |-> None, offset |-> p.offset,
                length |-> p.length, digest |-> p.digest, content |-> c,
                traffic_type |-> None, cost |-> None, created_at |-> None]]

\* out_stream_tx.send(Ok(SyncPiecesResponse {..})).await, then the next number.
SyncSend ==
    /\ SyncAtNumber("send")
    /\ Send(SyncPiecesResponse(piece, content))
    /\ syncPc' = "get"
    /\ syncIdx' = syncIdx + 1
    /\ piece' = NoPiece
    /\ content' = None
    /\ UNCHANGED <<lifecycleVars, peerVars, callVars, out_stream_tx, attempts, dlVars>>

\* The for loop is over: the task ends and drops out_stream_tx.
SyncDone ==
    /\ syncPc = "get"
    /\ syncIdx > Len(interested_piece_numbers)
    /\ syncPc' = "done"
    /\ out_stream_tx' = "dropped"
    /\ UNCHANGED <<lifecycleVars, peerVars, callVars, out_stream,
                   out_stream_rx, delivered, syncIdx, piece, content, attempts,
                   dlVars>>

----------------------------------------------------------------------------
(* DfdaemonServerHandler::download_task *)

\* The request's download parameters: absent, or naming the task to download.
DownloadTaskRequests ==
    {[download |-> None]} \cup
    {[download |-> Some([task_id |-> id])] : id \in TaskIds}

\* Faulty variant of DownloadOkOr: absent parameters are replaced by defaults.
DownloadOrDefault(request) ==
    IF request.download.some
    THEN [ok |-> TRUE, download |-> request.download.value]
    ELSE [ok |-> TRUE, download |-> [task_id |-> ""]]

\* request.download.ok_or(Status::invalid_argument("missing download"))
DownloadOkOr(request) ==
    IF request.download.some
    THEN [ok |-> TRUE, download |-> request.download.value]
    ELSE [ok |-> FALSE, status |-> "INVALID_ARGUMENT"]

download_task(t, request) ==
    /\ Accepts(t)
    /\ call' = [kind |-> "DownloadTask", transport |-> t, request |-> request]
    /\ IF ~DownloadOkOr(request).ok
       THEN /\ result' = [status |-> "INVALID_ARGUMENT"]
            /\ UNCHANGED <<streamVars, dlVars>>
       ELSE /\ out_stream' = <<>>
            /\ out_stream_tx' = "alive"
            /\ out_stream_rx' = "open"
            /\ dlPc' = "call"
            /\ result' = [status |-> "OK"]
            /\ UNCHANGED <<delivered, engine, download_progress,
                           finished_piece, emitted>>
    /\ UNCHANGED <<lifecycleVars, peerVars, storeAccessed, syncVars>>

\* How long a finished piece took, when the engine measured it.
Costs == {None, Some([secs |-> 1, nanos |-> 500])}

\* The n-th progress event of the engine, for piece `number`.
FinishedPiece(number, cost, n) ==
    [number |-> number, offset |-> number * PieceLength, length |-> PieceLength,
     digest |-> <<"digest", number>>, cost |-> cost,
     created_at |-> [secs |-> n, nanos |-> 0]]

\* The engine completes one more piece and reports it on the progress channel.
EngineEmit(number, cost) ==
    /\ engine = "running"
    /\ Len(emitted) < MaxEvents
    /\ LET ev == FinishedPiece(number, cost, Len(emitted) + 1)
       IN  /\ download_progress' = Append(download_progress, ev)
           /\ emitted' = Append(emitted, ev)
    /\ UNCHANGED <<lifecycleVars, peerVars, callVars, streamVars, syncVars,
                   dlPc, engine, finished_piece>>

\* The engine completes the download: the progress channel's sender is dropped.
EngineFinish ==
    /\ engine = "running"
    /\ engine' = "finished"
    /\ UNCHANGED <<lifecycleVars, peerVars, callVars, streamVars, syncVars,
                   dlPc, download_progress, finished_piece, emitted>>

\* The engine fails after the pieces it completed: all it can do with the
\* progress channel, which carries pieces only, is to drop the sender.
EngineFail ==
    /\ engine = "running"
    /\ engine' = "failed"
    /\ UNCHANGED <<lifecycleVars, peerVars, callVars, streamVars, syncVars,
                   dlPc, download_progress, finished_piece, emitted>>

\* task.download_into_file(download).await returns Ok(download_progress_rx)
DownloadIntoFileOk ==
    /\ dlPc = "call"
    /\ engine' = "running"
    /\ download_progress' = <<>>
    /\ dlPc' = "recv"
    /\ UNCHANGED <<lifecycleVars, peerVars, callVars, streamVars, syncVars,
                   finished_piece, emitted>>

\* task.download_into_file(download).await returns Err(e)
DownloadIntoFileErr ==
    /\ dlPc = "call"
    /\ engine' = "failed"
    /\ dlPc' = "send_err"
    /\ UNCHANGED <<lifecycleVars, peerVars, callVars, streamVars, syncVars,
                   download_progress, finished_piece, emitted>>

\* download_progress_rx.recv().await returns Some(finished_piece)
DownloadRecv ==
    /\ dlPc = "recv"
    /\ download_progress # <<>>
    /\ finished_piece' = Head(download_progress)
    /\ download_progress' = Tail(download_progress)
    /\ dlPc' = "send"
    /\ UNCHANGED <<lifecycleVars, peerVars, callVars, streamVars, syncVars,
                   engine, emitted>>

\* Faulty variant of DownloadRecvNone: the end of the progress channel is
\* reported as an error item.
DownloadRecvNoneThenError ==
    /\ dlPc = "recv"
    /\ download_progress = <<>>
    /\ engine \in {"finished", "failed"}
    /\ dlPc' = "send_err"
    /\ UNCHANGED <<lifecycleVars, peerVars, callVars, streamVars, syncVars, engine,
                   download_progress, finished_piece, emitted>>

\* download_progress_rx.recv().await returns None: the while loop and the
\* task end and out_stream_tx is dropped.
DownloadRecvNone ==
    /\ dlPc = "recv"
    /\ download_progress = <<>>
    /\ engine \in {"finished", "failed"}
    /\ dlPc' = "done"
    /\ out_stream_tx' = "dropped"
    /\ UNCHANGED <<lifecycleVars, peerVars, callVars, out_stream,
                   out_stream_rx, delivered, syncVars, engine,
                   download_progress, finished_piece, emitted>>

\* prost_wkt_types::Duration::from(cost)
DurationFrom(d) == [seconds |-> d.secs, nanos |-> d.nanos]
\* prost_wkt_types::Timestamp::from(created_at)
TimestampFrom(at) == [seconds |-> at.secs, nanos |-> at.nanos]

\* Faulty variant of DownloadTaskResponse: the cost is left out.
DownloadTaskResponseWithoutCost(p) ==
    [ok |-> TRUE,
     piece |-> [number |-> p.number, parent_id |-> None, offset |-> p.offset,
                length |-> p.length, digest |-> p.digest, content |-> None,
                traffic_type |-> None, cost |-> None,
                created_at |-> Some(TimestampFrom(p.created_at))]]

\* The item relaying a progress event: a descriptor without content.
DownloadTaskResponse(p) ==
    [ok |-> TRUE,
     piece |-> [number |-> p.number, parent_id |-> None, offset |-> p.offset,
                length |-> p.length, digest |-> p.digest, content |-> None,
                traffic_type |-> None,
                cost |-> IF p.cost.some THEN Some(DurationFrom(p.cost.value))
                         ELSE None,
                created_at |-> Some(TimestampFrom(p.created_at))]]

\* out_stream_tx.send(Ok(DownloadTaskResponse {..})).await, then the next event.
DownloadSend ==
    /\ dlPc = "send"
    /\ Send(DownloadTaskResponse(finished_piece))
    /\ dlPc' = "recv"
    /\ finished_piece' = NoPiece
    /\ UNCHANGED <<lifecycleVars, peerVars, callVars, out_stream_tx, syncVars,
                   engine, download_progress, emitted>>

\* Err(Status::internal(e.to_string()))
ErrorItem == [ok |-> FALSE, status |-> "INTERNAL"]

\* Where the producer goes after sending the error item: the match arm and
\* the task end.
\* (Faulty variant: the error is sent again.)
AfterErrorRetry == "send_err"
AfterError == "done"

\* out_stream_tx.send(Err(Status::internal(..))).await, and the task ends.
DownloadSendErr ==
    /\ dlPc = "send_err"
    /\ Send(ErrorItem)
    /\ dlPc' = AfterError
    /\ out_stream_tx' = IF AfterError = "done" THEN "dropped" ELSE out_stream_tx
    /\ UNCHANGED <<lifecycleVars, peerVars, callVars, syncVars, engine,
                   download_progress, finished_piece, emitted>>

----------------------------------------------------------------------------
(* DfdaemonServerHandler::upload_task and ::delete_task *)

UploadTaskRequests == {[task_id |-> id] : id \in TaskIds}
DeleteTaskRequests == {[task_id |-> id] : id \in TaskIds}

\* Faulty variant of NotImplemented: the call is acknowledged.
Acknowledged == [status |-> "OK"]
\* Err(Status::unimplemented("not implemented"))
NotImplemented == [status |-> "UNIMPLEMENTED"]

\* println!("upload_task: {:?}", request); the request is printed, no more.
upload_task(t, request) ==
    /\ Accepts(t)
    /\ call' = [kind |-> "UploadTask", transport |-> t, request |-> request]
    /\ result' = NotImplemented
    /\ UNCHANGED <<lifecycleVars, peerVars, storeAccessed, streamVars,
                   syncVars, dlVars>>

\* println!("delete_task: {:?}", request); the request is printed, no more.
delete_task(t, request) ==
    /\ Accepts(t)
    /\ call' = [kind |-> "DeleteTask", transport |-> t, request |-> request]
    /\ result' = NotImplemented
    /\ UNCHANGED <<lifecycleVars, peerVars, storeAccessed, streamVars,
                   syncVars, dlVars>>

----------------------------------------------------------------------------
(* DfdaemonServerHandler::stat_task *)

\* super::REQUEST_TIMEOUT, the fixed deadline of a request.
REQUEST_TIMEOUT == [secs |-> 5, nanos |-> 0]

SchedulerTaskIds == {"task-1", "task-2"}
StatTaskRequests == {[task_id |-> id] : id \in SchedulerTaskIds}

\* self.task.scheduler_client.client(): a connection to the scheduler, or not.
SchedulerClientResults == {[ok |-> TRUE], [ok |-> FALSE]}

\* What the scheduler's stat_task hands back for a request: the task it was
\* asked about, or the status the call failed with.
SchedulerStatTaskResults(request) ==
    {[ok |-> TRUE, task |-> [id |-> request.id, state |-> st]] :
        st \in {"Running", "Succeeded"}} \cup
    {[ok |-> FALSE, status |-> code] :
        code \in {"UNAVAILABLE", "DEADLINE_EXCEEDED", "INTERNAL"}}

\* SchedulerStatTaskRequest { id: task_id }, with set_timeout(REQUEST_TIMEOUT)
SchedulerStatTaskRequest(request) ==
    [id |-> request.task_id, timeout |-> Some(REQUEST_TIMEOUT)]

\* client().map_err(|e| Status::internal(..))?.stat_task(request).await: only
\* the failure to get a connection is mapped; the call's result is returned
\* as it is.
StatTaskResponse(client, reply) ==
    IF ~client.ok THEN [status |-> "INTERNAL"]
    ELSE IF reply.ok THEN [status |-> "OK", task |-> reply.task]
    ELSE [status |-> reply.status]

stat_task(t, request, client, reply) ==
    /\ Accepts(t)
    /\ call' = [kind |-> "StatTask", transport |-> t, request |-> request,
                client |-> client,
                forwarded |-> IF client.ok THEN Some(SchedulerStatTaskRequest(request))
                              ELSE None,
                reply |-> IF client.ok THEN Some(reply) ELSE None]
    /\ result' = StatTaskResponse(client, reply)
    /\ UNCHANGED <<lifecycleVars, peerVars, storeAccessed, streamVars, syncVars, dlVars>>

----------------------------------------------------------------------------
(* DfdaemonClient *)

\* Nanoseconds in a second: the unit of a protobuf Duration's nanos field.
NanosPerSecond == 1000000000

\* The timeout a download may carry: a protobuf Duration, whose fields may be
\* negative, and may disagree in sign.
ClientTimeouts ==
    {None} \cup
    {Some([seconds |-> d[1], nanos |-> d[2]]) :
        d \in {<<0, 0>>, <<1, 500>>, <<1, -1>>, <<-1, 0>>, <<0, -1>>, <<-1, 5>>,
               <<-1, NanosPerSecond>>}}

ClientDownloadTaskRequests ==
    {[download |-> None]} \cup
    {[download |-> Some([task_id |-> id, timeout |-> timeout])] :
        id \in TaskIds, timeout \in ClientTimeouts}

\* Duration::try_from(timeout): the protobuf Duration is normalised, seconds
\* and nanos brought to the same sign and nanos below a second, and converts
\* unless it is negative.
TryFromDuration(d) ==
    LET total == d.seconds * NanosPerSecond + d.nanos
    IN  IF total < 0
        THEN [ok |-> FALSE]
        ELSE [ok |-> TRUE,
              value |-> [secs |-> total \div NanosPerSecond,
                         nanos |-> total % NanosPerSecond]]

\* Faulty variant of DownloadTaskRpc: a download without a timeout gets the
\* fixed deadline of the other calls.
DownloadTaskRpcFixedDeadline(request) ==
    IF ~request.download.some
    THEN [ok |-> FALSE, status |-> "INVALID_ARGUMENT",
          message |-> "missing download in download task request"]
    ELSE LET timeout == request.download.value.timeout
         IN  IF ~timeout.some THEN [ok |-> TRUE, timeout |-> Some(REQUEST_TIMEOUT)]
             ELSE IF ~TryFromDuration(timeout.value).ok
                  THEN [ok |-> FALSE, status |-> "INVALID_ARGUMENT",
                        message |-> "invalid timeout"]
                  ELSE [ok |-> TRUE,
                        timeout |-> Some(TryFromDuration(timeout.value).value)]

\* Faulty variant of DownloadTaskRpc: a timeout that does not convert is left
\* out and the call is made without a deadline.
DownloadTaskRpcLenient(request) ==
    IF ~request.download.some
    THEN [ok |-> FALSE, status |-> "INVALID_ARGUMENT",
          message |-> "missing download in download task request"]
    ELSE LET timeout == request.download.value.timeout
         IN  IF ~timeout.some \/ ~TryFromDuration(timeout.value).ok
             THEN [ok |-> TRUE, timeout |-> None]
             ELSE [ok |-> TRUE,
                   timeout |-> Some(TryFromDuration(timeout.value).value)]

\* What download_task does before it calls: the deadline of the RPC, or the
\* error it returns instead of calling.
DownloadTaskRpc(request) ==
    IF ~request.download.some
    THEN [ok |-> FALSE, status |-> "INVALID_ARGUMENT",
          message |-> "missing download in download task request"]
    ELSE LET timeout == request.download.value.timeout
         IN  IF ~timeout.some THEN [ok |-> TRUE, timeout |-> None]
             ELSE IF ~TryFromDuration(timeout.value).ok
                  THEN [ok |-> FALSE, status |-> "INVALID_ARGUMENT",
                        message |-> "invalid timeout"]
                  ELSE [ok |-> TRUE,
                        timeout |-> Some(TryFromDuration(timeout.value).value)]

\* A method of the client is invoked on a client that has made no call yet.
ClientIdle == clientCall = NoCall /\ call = NoCall

\* request.set_timeout(super::REQUEST_TIMEOUT); self.client.clone().method(request)
IssueWithRequestTimeout(method, request) ==
    /\ clientCall' = [method |-> method, request |-> request]
    /\ rpcs' = Append(rpcs, [method |-> method, request |-> request,
                             timeout |-> Some(REQUEST_TIMEOUT)])
    /\ UNCHANGED <<lifecycleVars, callVars, streamVars, syncVars, dlVars,
                   resultOther, clientResult>>

DfdaemonClient_get_piece_numbers(request) ==
    /\ ClientIdle
    /\ IssueWithRequestTimeout("GetPieceNumbers", request)

DfdaemonClient_sync_pieces(request) ==
    /\ ClientIdle
    /\ IssueWithRequestTimeout("SyncPieces", request)

DfdaemonClient_upload_task(request) ==
    /\ ClientIdle
    /\ IssueWithRequestTimeout("UploadTask", request)

DfdaemonClient_stat_task(request) ==
    /\ ClientIdle
    /\ IssueWithRequestTimeout("StatTask", request)

DfdaemonClient_delete_task(request) ==
    /\ ClientIdle
    /\ IssueWithRequestTimeout("DeleteTask", request)

DfdaemonClient_download_task(request) ==
    /\ ClientIdle
    /\ clientCall' = [method |-> "DownloadTask", request |-> request]
    /\ LET rpc == DownloadTaskRpc(request)
       IN  IF rpc.ok
           THEN /\ rpcs' = Append(rpcs, [method |-> "DownloadTask",
                                         request |-> request,
                                         timeout |-> rpc.timeout])
                /\ UNCHANGED clientResult
           ELSE /\ clientResult' = [status |-> rpc.status, message |-> rpc.message]
                /\ UNCHANGED rpcs
    /\ UNCHANGED <<lifecycleVars, callVars, streamVars, syncVars, dlVars, resultOther>>

----------------------------------------------------------------------------
(* The system. *)

Init ==
    /\ runPc = "init"
    /\ listener = [t \in Transports |-> "idle"]
    /\ triggers = "never"
    /\ shutdownRx = [t \in Transports |-> "none"]
    /\ call = NoCall
    /\ result = NoResult
    /\ storeAccessed = FALSE
    /\ out_stream = <<>>
    /\ out_stream_tx = "none"
    /\ out_stream_rx = "none"
    /\ delivered = <<>>
    /\ syncPc = "idle"
    /\ syncIdx = 0
    /\ piece = NoPiece
    /\ content = None
    /\ attempts = <<>>
    /\ dlPc = "idle"
    /\ engine = "idle"
    /\ download_progress = <<>>
    /\ finished_piece = NoPiece
    /\ emitted = <<>>
    /\ resultOther = NoResult
    /\ clientCall = NoCall
    /\ rpcs = <<>>
    /\ clientResult = NoResult

Run ==
    \/ RunStart
    \/ RunCloneShutdownTcp
    \/ RunServeTcp
    \/ TcpRecvShutdown
    \/ TcpStop
    \/ RunCloneShutdownUds
    \/ RunServeUds
    \/ UdsRecvShutdown
    \/ UdsStop

BindFailure ==
    \/ RunServeTcpFail
    \/ RunServeUdsFail

Handler ==
    \/ \E t \in Transports, id \in TaskIds, get_all \in GetAllResults :
           get_piece_numbers(t, id, get_all)
    \/ \E t \in Transports, request \in SyncPiecesRequests : sync_pieces(t, request)
    \/ \E t \in Transports, request \in DownloadTaskRequests :
           download_task(t, request)
    \/ \E t \in Transports, request \in UploadTaskRequests : upload_task(t, request)
    \/ \E t \in Transports, request \in DeleteTaskRequests : delete_task(t, request)
    \/ \E t \in Transports, request \in StatTaskRequests,
           client \in SchedulerClientResults :
           \E reply \in SchedulerStatTaskResults(SchedulerStatTaskRequest(request)) :
               stat_task(t, request, client, reply)

\* The same GetPieceNumbers call over the other transport.
SameCall == \E t \in Transports : get_piece_numbers_other(t)

Client ==
    \/ \E id \in TaskIds : DfdaemonClient_get_piece_numbers([task_id |-> id])
    \/ \E request \in SyncPiecesRequests : DfdaemonClient_sync_pieces(request)
    \/ \E request \in ClientDownloadTaskRequests : DfdaemonClient_download_task(request)
    \/ \E request \in UploadTaskRequests : DfdaemonClient_upload_task(request)
    \/ \E request \in StatTaskRequests : DfdaemonClient_stat_task(request)
    \/ \E request \in DeleteTaskRequests : DfdaemonClient_delete_task(request)

SyncProducer ==
    \/ SyncGetErr
    \/ SyncGetNone
    \/ SyncGetSome
    \/ SyncOpenErr
    \/ SyncOpenOk
    \/ SyncReadErr
    \/ SyncReadOk
    \/ SyncSend
    \/ SyncDone

DownloadProducer ==
    \/ DownloadIntoFileOk
    \/ DownloadIntoFileErr
    \/ DownloadRecv
    \/ DownloadRecvNone
    \/ DownloadSend
    \/ DownloadSendErr

Engine ==
    \/ \E number \in PieceNumbers, cost \in Costs : EngineEmit(number, cost)
    \/ EngineFinish
    \/ EngineFail

Transport ==
    \/ TransportRecv
    \/ TransportEnd

Next ==
    \/ Run
    \/ BindFailure
    \/ TriggerShutdown
    \/ Handler
    \/ SameCall
    \/ Client
    \/ SyncProducer
    \/ DownloadProducer
    \/ Engine
    \/ Transport
    \/ ClientDisconnect

Spec == Init /\ [][Next]_vars

\* The runtime schedules every task that can run: run itself, the spawned
\* producers, the engine and the transport draining a stream keep going.
\* Nothing obliges a call to arrive, the signal to be triggered, a bind to
\* fail or a client to go away.
Fairness ==
    /\ WF_vars(Run)
    /\ WF_vars(SyncProducer)
    /\ WF_vars(DownloadProducer)
    /\ WF_vars(Engine)
    /\ WF_vars(Transport)

FairSpec == Init /\ [][Next]_vars /\ Fairness

\* A caller that makes the same call over both transports: the second call is
\* made, and answered, as soon as the other listener serves.
FairSpecPair == Init /\ [][Next]_vars /\ Fairness /\ WF_vars(SameCall)

----------------------------------------------------------------------------
(* The streams of calls that fill the outbound channel.  A call that queues  *)
(* 128 items is followed from the point where the channel is one item short  *)
(* of full: the network listener serving, the signal not fired, and the      *)
(* transport not having polled the stream yet.                               *)

\* A request naming one piece more than the outbound channel holds.
LongList == [i \in 1..(OutStreamCapacity + 1) |-> i % 2]

\* As many progress events, every other one with a cost.
LongProgress ==
    [i \in 1..(OutStreamCapacity + 1) |->
        FinishedPiece(i % 2,
                      IF i % 2 = 0 THEN None ELSE CHOOSE cost \in Costs : cost.some,
                      i)]

\* What the call leaves untouched: run is serving the network listener and no
\* peer of the model has acted.
ServingTcp ==
    /\ runPc = "serve_tcp"
    /\ listener = [t \in Transports |-> IF t = "tcp" THEN "serving" ELSE "idle"]
    /\ triggers = "never"
    /\ shutdownRx = [t \in Transports |->
                         IF t = "tcp" THEN "subscribed" ELSE "none"]
    /\ resultOther = NoResult
    /\ clientCall = NoCall
    /\ rpcs = <<>>
    /\ clientResult = NoResult

\* A SyncPieces call for LongList whose producer has read and sent all the
\* pieces but the last two: what sync_pieces and as many rounds of
\* SyncGetSome, SyncOpenOk, SyncReadOk and SyncSend lead to.
InitFullSync ==
    LET sent == OutStreamCapacity - 1
    IN  /\ ServingTcp
        /\ call = [kind |-> "SyncPieces", transport |-> "tcp",
                   request |->
                       [task_id |-> "task-1",
                        request |-> Some([variant |-> "InterestedPiecesRequest",
                                          piece_numbers |-> LongList])]]
        /\ result = [status |-> "OK"]
        /\ storeAccessed = TRUE
        /\ out_stream =
               [i \in 1..sent |->
                   SyncPiecesResponse(StoreMetadata(LongList[i]),
                                      Some(StoreContent(LongList[i])))]
        /\ out_stream_tx = "alive"
        /\ out_stream_rx = "open"
        /\ delivered = <<>>
        /\ syncPc = "get"
        /\ syncIdx = sent + 1
        /\ piece = NoPiece
        /\ content = None
        /\ attempts = [i \in 1..sent |-> "read_ok"]
        /\ dlPc = "idle"
        /\ engine = "idle"
        /\ download_progress = <<>>
        /\ finished_piece = NoPiece
        /\ emitted = <<>>

\* A DownloadTask call whose engine has emitted LongProgress and whose
\* producer has relayed all the events but the last two: what download_task,
\* DownloadIntoFileOk, the engine's reports and as many rounds of
\* DownloadRecv and DownloadSend lead to.
InitFullDownload ==
    LET sent == OutStreamCapacity - 1
    IN  /\ ServingTcp
        /\ call = [kind |-> "DownloadTask", transport |-> "tcp",
                   request |-> [download |-> Some([task_id |-> "task-1"])]]
        /\ result = [status |-> "OK"]
        /\ storeAccessed = FALSE
        /\ out_stream = [i \in 1..sent |-> DownloadTaskResponse(LongProgress[i])]
        /\ out_stream_tx = "alive"
        /\ out_stream_rx = "open"
        /\ delivered = <<>>
        /\ syncPc = "idle"
        /\ syncIdx = 0
        /\ piece = NoPiece
        /\ content = None
        /\ attempts = <<>>
        /\ dlPc = "recv"
        /\ engine = "running"
        /\ download_progress = SubSeq(LongProgress, sent + 1, Len(LongProgress))
        /\ finished_piece = NoPiece
        /\ emitted = LongProgress

\* A DownloadTask call that has just been answered with its stream: what
\* download_task leads to.
InitDownload ==
    /\ ServingTcp
    /\ call = [kind |-> "DownloadTask", transport |-> "tcp",
               request |-> [download |-> Some([task_id |-> "task-1"])]]
    /\ result = [status |-> "OK"]
    /\ storeAccessed = FALSE
    /\ out_stream = <<>>
    /\ out_stream_tx = "alive"
    /\ out_stream_rx = "open"
    /\ delivered = <<>>
    /\ syncPc = "idle"
    /\ syncIdx = 0
    /\ piece = NoPiece
    /\ content = None
    /\ attempts = <<>>
    /\ dlPc = "call"
    /\ engine = "idle"
    /\ download_progress = <<>>
    /\ finished_piece = NoPiece
    /\ emitted = <<>>

InitStream ==
    \/ InitFullSync
    \/ InitFullDownload
    \/ InitDownload

\* The stream of a call: its producer, the engine, the transport, the client.
NextStream ==
    \/ SyncProducer
    \/ DownloadProducer
    \/ Engine
    \/ Transport
    \/ ClientDisconnect

SpecStream == InitStream /\ [][NextStream]_vars
FairSpecStream == InitStream /\ [][NextStream]_vars /\ Fairness

----------------------------------------------------------------------------
(* Vocabulary of the properties. *)

SyncCall == call.kind = "SyncPieces" /\ result.status = "OK"
DownloadCall == call.kind = "DownloadTask" /\ result.status = "OK"

\* The piece numbers carried by a sequence of success items.
Numbers(items) == [i \in DOMAIN items |-> items[i].piece.number]

RECURSIVE IsSubseq(_, _)
\* s can be obtained from t by deleting elements.
IsSubseq(s, t) ==
    IF s = <<>> THEN TRUE
    ELSE IF t = <<>> THEN FALSE
    ELSE IF Head(s) = Head(t) THEN IsSubseq(Tail(s), Tail(t))
    ELSE IsSubseq(s, Tail(t))

\* How many times x occurs in s.
Count(x, s) == Cardinality({i \in DOMAIN s : s[i] = x})

\* The items of the entries among the first n of the request whose metadata,
\* reader and content were all obtained, in request order.
ReadItems(ns, n) ==
    LET read == SelectSeq([i \in 1..n |-> i], LAMBDA i : attempts[i] = "read_ok")
    IN  [k \in DOMAIN read |->
            [ok |-> TRUE,
             piece |-> [number |-> ns[read[k]], parent_id |-> None,
                        offset |-> StoreMetadata(ns[read[k]]).offset,
                        length |-> StoreMetadata(ns[read[k]]).length,
                        digest |-> StoreMetadata(ns[read[k]]).digest,
                        content |-> Some(StoreContent(ns[read[k]])),
                        traffic_type |-> None, cost |-> None,
                        created_at |-> None]]]

\* The success items among a sequence of items.
SuccessItems(items) == SelectSeq(items, LAMBDA item : item.ok)

\* Every item of a sequence is a success item.
AllOk(items) == \A i \in DOMAIN items : items[i].ok

\* The item is a descriptor of the progress event: its number, offset, length,
\* digest, cost and creation time, and no content.
Carries(item, ev) ==
    /\ item.ok
    /\ item.piece.number = ev.number
    /\ item.piece.offset = ev.offset
    /\ item.piece.length = ev.length
    /\ item.piece.digest = ev.digest
    /\ ~item.piece.content.some
    /\ item.piece.cost.some = ev.cost.some
    /\ ev.cost.some =>
           /\ item.piece.cost.value.seconds = ev.cost.value.secs
           /\ item.piece.cost.value.nanos = ev.cost.value.nanos
    /\ item.piece.created_at.some
    /\ item.piece.created_at.value.seconds = ev.created_at.secs
    /\ item.piece.created_at.value.nanos = ev.created_at.nanos

----------------------------------------------------------------------------
(* Properties. *)

\* C1: the piece numbers carried by a SyncPieces stream form a subsequence of
\* the requested list, in request order, whatever fails along the way.
SyncOrdering ==
    SyncCall =>
        /\ \A i \in DOMAIN StreamItems : StreamItems[i].ok
        /\ IsSubseq(Numbers(StreamItems), interested_piece_numbers)

\* C1 witness: two pieces with different numbers were delivered.
SyncOrderingWitness ==
    /\ SyncCall
    /\ syncPc = "done"
    /\ Len(delivered) = 2
    /\ delivered[1].piece.number # delivered[2].piece.number

\* C2 as stated: a SyncPieces stream holds at most one item per piece number,
\* also when the request names a number more than once.
SyncNoDuplicates ==
    SyncCall =>
        \A i, j \in DOMAIN StreamItems :
            i # j => StreamItems[i].piece.number # StreamItems[j].piece.number

\* C2 amended: a SyncPieces stream holds at most one item per entry of the
\* request: a number is carried by at most as many items as the request
\* names it.
SyncOneItemPerEntry ==
    SyncCall =>
        \A n \in PieceNumbers :
            Count(n, Numbers(StreamItems)) <= Count(n, interested_piece_numbers)

\* C2 witness: a request naming a number twice had both entries delivered.
SyncOneItemPerEntryWitness ==
    /\ SyncCall
    /\ Len(delivered) = 2
    /\ delivered[1].piece.number = delivered[2].piece.number

\* C3: while the consumer is there, the stream carries exactly the items of
\* the processed entries whose three steps succeeded, and a failed entry
\* does not keep the producer from attempting every later one.
SyncAbsorbsFailures ==
    SyncCall =>
        /\ Len(attempts) \in {syncIdx - 1, syncIdx}
        /\ syncPc = "done" => Len(attempts) = Len(interested_piece_numbers)
        /\ out_stream_rx # "dropped" =>
               StreamItems = ReadItems(interested_piece_numbers, syncIdx - 1)

\* C3 witness: the first entry failed and a later one was delivered.
SyncAbsorbsFailuresWitness ==
    /\ SyncCall
    /\ syncPc = "done"
    /\ Len(attempts) >= 2
    /\ attempts[1] # "read_ok"
    /\ attempts[2] = "read_ok"
    /\ Len(delivered) = 1

\* C4: a SyncPieces stream never carries an error or terminator item, and the
\* producer gets through every requested number and ends, after which the
\* stream is closed (or had been dropped by a client that went away).
SyncCompletes ==
    /\ [](SyncCall =>
             \A i \in DOMAIN StreamItems :
                 StreamItems[i].ok /\ StreamItems[i].piece.content.some)
    /\ SyncCall ~>
           (/\ syncPc = "done"
            /\ Len(attempts) = Len(interested_piece_numbers)
            /\ out_stream_tx = "dropped"
            /\ out_stream_rx \in {"closed", "dropped"})

\* C4 witness: a stream with a failed entry was drained to its end.
SyncCompletesWitness ==
    /\ SyncCall
    /\ syncPc = "done"
    /\ out_stream_rx = "closed"
    /\ Len(delivered) >= 1
    /\ Len(attempts) > Len(delivered)

\* C5: GetPieceNumbers answers INTERNAL when the enumeration fails, NOT_FOUND
\* exactly when it succeeds and is empty, and otherwise the numbers of the
\* enumerated pieces, as many and in the order the store returned them.
GetPieceNumbersContract ==
    call.kind = "GetPieceNumbers" =>
        /\ result.status = "INTERNAL" <=> ~call.get_all.ok
        /\ result.status = "NOT_FOUND" <=>
               (call.get_all.ok /\ call.get_all.pieces = <<>>)
        /\ (call.get_all.ok /\ call.get_all.pieces # <<>>) =>
               /\ result.status = "OK"
               /\ Len(result.piece_numbers) = Len(call.get_all.pieces)
               /\ \A i \in DOMAIN call.get_all.pieces :
                      result.piece_numbers[i] = call.get_all.pieces[i].number

\* C5 witness: an enumeration that is not sorted was answered.
GetPieceNumbersWitness ==
    /\ call.kind = "GetPieceNumbers"
    /\ result.status = "OK"
    /\ result.piece_numbers = <<1, 0>>

\* C6 as stated: once the engine has failed after completing k pieces and the
\* producer has ended, the stream carries the k success items and then one
\* INTERNAL error item.
DownloadFailureAfterProgress ==
    (DownloadCall /\ dlPc = "done" /\ engine = "failed"
        /\ out_stream_rx # "dropped") =>
        StreamItems =
            [i \in DOMAIN emitted |-> DownloadTaskResponse(emitted[i])]
                \o <<ErrorItem>>

\* C7: a DownloadTask stream carries at most one error item, and nothing
\* comes after it.
DownloadTerminalError ==
    DownloadCall =>
        \A i \in DOMAIN StreamItems :
            ~StreamItems[i].ok => i = Len(StreamItems)

\* C7 witness: the error item of a failed download was delivered.
DownloadTerminalErrorWitness ==
    /\ DownloadCall
    /\ dlPc = "done"
    /\ delivered = <<ErrorItem>>

\* C8 as stated: once run has started, and unless the signal is fired (or a
\* bind fails), both listeners come to serve at the same time.
ConcurrentTransports ==
    (runPc # "init") ~>
        \/ ShutdownFired
        \/ runPc = "panicked"
        \/ listener["tcp"] = "serving" /\ listener["uds"] = "serving"

\* C9 as stated: once the signal has been fired, once, both listeners end up
\* stopped and run returns (unless a bind failed).
ShutdownStopsBoth ==
    (triggers = "once") ~>
        \/ triggers = "again"
        \/ runPc = "panicked"
        \/ /\ listener["tcp"] = "stopped"
           /\ listener["uds"] = "stopped"
           /\ runPc = "returned"

\* C10: a SyncPieces request without the interested-pieces payload is answered
\* INVALID_ARGUMENT; no producer is spawned for it, no outbound queue is
\* created and the store is not accessed.
SyncRejectsOtherPayloads ==
    (/\ call.kind = "SyncPieces"
     /\ ~(/\ call.request.request.some
          /\ call.request.request.value.variant = "InterestedPiecesRequest")) =>
        /\ result.status = "INVALID_ARGUMENT"
        /\ syncPc = "idle"
        /\ out_stream_tx = "none"
        /\ out_stream_rx = "none"
        /\ StreamItems = <<>>
        /\ ~storeAccessed

\* C10 witness: a request carrying another payload variant was rejected.
SyncRejectsOtherPayloadsWitness ==
    /\ call.kind = "SyncPieces"
    /\ call.request.request.some
    /\ call.request.request.value.variant = "Other"
    /\ result.status = "INVALID_ARGUMENT"

\* C11: a DownloadTask request without download parameters is answered
\* INVALID_ARGUMENT as the result of the call, with no producer spawned and
\* the engine never invoked; a request with them is always answered with a
\* stream, a failure of the engine showing inside the stream only.
DownloadTaskValidation ==
    call.kind = "DownloadTask" =>
        IF call.request.download.some
        THEN /\ result.status = "OK"
             /\ out_stream_tx # "none"
             /\ out_stream_rx # "none"
             /\ dlPc # "idle"
        ELSE /\ result.status = "INVALID_ARGUMENT"
             /\ dlPc = "idle"
             /\ engine = "idle"
             /\ emitted = <<>>
             /\ out_stream_tx = "none"
             /\ out_stream_rx = "none"
             /\ StreamItems = <<>>

\* C11 witness: a request without download parameters was rejected.
DownloadTaskValidationWitness ==
    /\ call.kind = "DownloadTask"
    /\ ~call.request.download.some
    /\ result.status = "INVALID_ARGUMENT"

\* C12: UploadTask and DeleteTask answer UNIMPLEMENTED whatever the request and
\* the state of the server, never success, and the step that handles one
\* leaves the store, the engine and the streams as they were.
UnimplementedCalls ==
    /\ [](call.kind \in {"UploadTask", "DeleteTask"} =>
             /\ result.status = "UNIMPLEMENTED"
             /\ ~storeAccessed
             /\ engine = "idle"
             /\ out_stream_tx = "none"
             /\ StreamItems = <<>>)
    /\ [][(call'.kind \in {"UploadTask", "DeleteTask"} /\ call' # call) =>
             /\ result'.status = "UNIMPLEMENTED"
             /\ UNCHANGED <<storeAccessed, streamVars, syncVars, dlVars>>]_vars

\* C12 witness: a DeleteTask call was answered over the unix domain socket,
\* after the signal had been fired.
UnimplementedCallsWitness ==
    /\ call.kind = "DeleteTask"
    /\ call.transport = "uds"
    /\ ShutdownFired
    /\ result.status = "UNIMPLEMENTED"

\* C13: every call of the client but download_task goes out with the deadline
\* REQUEST_TIMEOUT; download_task goes out with a deadline of the same length
\* as the timeout its download carries, and with none when it carries none.
ClientDeadlines ==
    \A i \in DOMAIN rpcs :
        LET rpc == rpcs[i]
        IN  IF rpc.method # "DownloadTask"
            THEN rpc.timeout = Some(REQUEST_TIMEOUT)
            ELSE LET embedded == rpc.request.download.value.timeout
                 IN  IF ~embedded.some
                     THEN rpc.timeout = None
                     ELSE /\ rpc.timeout.some
                          /\ rpc.timeout.value.secs >= 0
                          /\ rpc.timeout.value.nanos \in 0..(NanosPerSecond - 1)
                          /\ rpc.timeout.value.secs * NanosPerSecond
                                 + rpc.timeout.value.nanos
                             = embedded.value.seconds * NanosPerSecond
                                 + embedded.value.nanos

\* C13 witness: a download whose timeout of one second minus a nanosecond had
\* to be normalised went out with that deadline.
ClientDeadlinesWitness ==
    /\ Len(rpcs) = 1
    /\ rpcs[1].method = "DownloadTask"
    /\ rpcs[1].request.download.value.timeout = Some([seconds |-> 1, nanos |-> -1])
    /\ rpcs[1].timeout = Some([secs |-> 0, nanos |-> NanosPerSecond - 1])

\* C14 as stated: StatTask forwards the request's task id, returns the
\* scheduler's successful response unchanged, and answers INTERNAL whenever
\* the connection to the scheduler or the scheduler call fails.
StatTaskProxy ==
    call.kind = "StatTask" =>
        /\ call.client.ok => call.forwarded.value.id = call.request.task_id
        /\ (call.client.ok /\ call.reply.value.ok) =>
               /\ result.status = "OK"
               /\ result.task = call.reply.value.task
        /\ (~call.client.ok \/ ~call.reply.value.ok) => result.status = "INTERNAL"

\* C15 as stated: the same GetPieceNumbers call over the other transport gets
\* the same answer, and while the server runs (the signal not fired, no bind
\* failed) it does get an answer.
TransportEquivalence ==
    /\ [](resultOther # NoResult => resultOther = result)
    /\ (call.kind = "GetPieceNumbers") ~>
           (resultOther # NoResult \/ ShutdownFired \/ runPc = "panicked")

\* C16: while the consumer is there, the success items of a DownloadTask stream
\* are the descriptors of the progress events the producer has taken off the
\* progress channel, one item per event and in the order the engine emitted
\* them, without content; once the producer has ended after the channel
\* closed, that is every event the engine emitted.
DownloadRelay ==
    (DownloadCall /\ out_stream_rx # "dropped") =>
        LET relayed == Len(emitted) - Len(download_progress)
                           - (IF dlPc = "send" THEN 1 ELSE 0)
            items == SuccessItems(StreamItems)
        IN  /\ Len(items) = relayed
            /\ \A i \in 1..relayed : Carries(items[i], emitted[i])
            /\ dlPc = "done" => relayed = Len(emitted)

\* C16 witness: two events, one with a cost and one without, were relayed and
\* delivered, and the stream was closed.
DownloadRelayWitness ==
    /\ DownloadCall
    /\ dlPc = "done"
    /\ out_stream_rx = "closed"
    /\ Len(delivered) = 2
    /\ delivered[1].piece.cost.some
    /\ ~delivered[2].piece.cost.some

\* C19: a DownloadTask stream holds an error item only when download_into_file
\* failed before handing back a progress channel, and then nothing else: the
\* error item comes from the producer's error position alone, that position
\* is entered from the call alone, and once a progress channel was obtained
\* every item is a success item and the producer goes on to its end.
DownloadErrorExclusive ==
    /\ [](DownloadCall =>
             /\ ~AllOk(StreamItems) =>
                    (StreamItems = <<ErrorItem>> /\ emitted = <<>> /\ engine = "failed")
             /\ dlPc \in {"recv", "send"} => AllOk(StreamItems))
    /\ [][/\ (AllOk(StreamItems) /\ dlPc # "send_err") => AllOk(StreamItems')
          /\ dlPc' = "send_err" => dlPc \in {"call", "send_err"}
          /\ dlPc \in {"recv", "send"} => dlPc' \in {"recv", "send", "done"}]_vars

\* C19 witness: the transport took the error item of a download that failed
\* at once and closed the stream, no event having been emitted.
DownloadErrorExclusiveWitness ==
    /\ DownloadCall
    /\ out_stream_rx = "closed"
    /\ out_stream_tx = "dropped"
    /\ delivered = <<ErrorItem>>
    /\ emitted = <<>>

\* C20: download_task of the client returns an invalid-argument error and puts
\* nothing on the wire when the request has no download or a timeout that is
\* negative; in every other case it puts exactly one RPC on the wire, for the
\* request it was given.
ClientDownloadValidation ==
    (clientCall # NoCall /\ clientCall.method = "DownloadTask") =>
        LET download == clientCall.request.download
            invalid ==
                \/ ~download.some
                \/ /\ download.value.timeout.some
                   /\ download.value.timeout.value.seconds * NanosPerSecond
                          + download.value.timeout.value.nanos < 0
        IN  IF invalid
            THEN /\ rpcs = <<>>
                 /\ clientResult.status = "INVALID_ARGUMENT"
            ELSE /\ Len(rpcs) = 1
                 /\ rpcs[1].method = "DownloadTask"
                 /\ rpcs[1].request = clientCall.request
                 /\ clientResult = NoResult

\* C20 witness: a download whose timeout has negative seconds that its nanos
\* do not make up for was refused, nothing sent.
ClientDownloadValidationWitness ==
    /\ clientCall # NoCall
    /\ clientCall.method = "DownloadTask"
    /\ clientCall.request.download.some
    /\ clientCall.request.download.value.timeout = Some([seconds |-> -1, nanos |-> 5])
    /\ clientResult.status = "INVALID_ARGUMENT"
    /\ rpcs = <<>>

\* C17: the outbound channel never holds more than 128 items; while it holds
\* 128 no send completes, the producer staying at its send until the consumer
\* takes an item (or goes away); nothing sent to a consumer that is there is
\* lost; and a consumer that stays gets every item the producer sends,
\* however late it polls.
Backpressure ==
    /\ [](Len(out_stream) <= OutStreamCapacity)
    /\ [][(Len(out_stream) = OutStreamCapacity /\ out_stream_rx = "open") =>
             /\ out_stream' \in {out_stream, Tail(out_stream), <<>>}
             /\ syncPc = "send" => (syncPc' = "send" /\ syncIdx' = syncIdx)
             /\ dlPc = "send" => dlPc' = "send"]_vars
    /\ []((SyncCall /\ out_stream_rx # "dropped") =>
             StreamItems = ReadItems(interested_piece_numbers, syncIdx - 1))
    /\ SyncCall ~>
           \/ out_stream_rx = "dropped"
           \/ /\ syncPc = "done"
              /\ out_stream_rx = "closed"
              /\ delivered =
                     ReadItems(interested_piece_numbers,
                               Len(interested_piece_numbers))
    /\ DownloadCall ~>
           \/ out_stream_rx = "dropped"
           \/ /\ dlPc = "done"
              /\ out_stream_rx = "closed"
              /\ Len(SuccessItems(delivered)) = Len(emitted)

\* C17 witness: the channel holds 128 items and the producer is at the send
\* of one more, the consumer not having taken any.
BackpressureWitness ==
    /\ SyncCall
    /\ Len(out_stream) = OutStreamCapacity
    /\ out_stream_rx = "open"
    /\ syncPc = "send"
    /\ delivered = <<>>

\* C18: once the consumer is gone, nothing is queued or delivered any more
\* and a send completes at once; the SyncPieces producer attempts every
\* number of the request, one after the other, and ends; the DownloadTask
\* producer ends only once the progress channel is closed and empty.
ConsumerDisconnect ==
    /\ [](out_stream_rx = "dropped" => (out_stream = <<>> /\ SendReady))
    /\ [][out_stream_rx = "dropped" =>
             /\ out_stream_rx' = "dropped"
             /\ delivered' = delivered
             /\ syncIdx' \in {syncIdx, syncIdx + 1}
             /\ dlPc' = "done" =>
                    (dlPc = "done" \/ dlPc = "send_err"
                        \/ (download_progress = <<>>
                                /\ engine \in {"finished", "failed"}))]_vars
    /\ (SyncCall /\ out_stream_rx = "dropped") ~>
           (/\ syncPc = "done"
            /\ out_stream_tx = "dropped"
            /\ Len(attempts) = Len(interested_piece_numbers))
    /\ (DownloadCall /\ out_stream_rx = "dropped") ~>
           (/\ dlPc = "done"
            /\ out_stream_tx = "dropped"
            /\ download_progress = <<>>
            /\ engine \in {"finished", "failed"})

\* C18 witness: the state the consumer leaves when it goes away, having taken
\* nothing, while 128 pieces are queued and the producer is suspended at the
\* send of one more.
ConsumerDisconnectWitness ==
    /\ SyncCall
    /\ out_stream_rx = "dropped"
    /\ delivered = <<>>
    /\ syncPc = "send"
    /\ syncIdx = OutStreamCapacity + 1
    /\ \A i \in 1..OutStreamCapacity : attempts[i] = "read_ok"

====
